---- MODULE Spec2Model ----
(***************************************************************************)
(* Model of the redis-populate scripts:                                    *)
(*   pop.py    streaming / batching / deduplicating loader (SpecPop),      *)
(*             its batcher alone (SpecChunk) and its reader (SpecReader);  *)
(*   count.py  the top-level object counter (SpecCount).                   *)
(* The store is the Redis server seen through the commands the scripts     *)
(* issue: DEL, RPUSH, SADD, LLEN, pipelined execution.                     *)
(***************************************************************************)
EXTENDS Integers, Sequences, FiniteSets, TLC

\* ------------------------------------------------------------------ bounds
\* longest array of the input file's 'institution' / 'companies' fields
MaxLen == 2
\* largest --chunk value tried
MaxChunk == 2
\* longest sequence fed to the batcher when it is run alone
MaxSeqLen == 4
\* longest top-level array given to the counter
MaxArr == 3

\* how many times the loader script is run against the same store
MaxRuns == 2

Items == {"A", "B", "C"}

SeqsUpTo(S, n) == UNION {[1..k -> S] : k \in 0..n}

Range(s) == {s[i] : i \in 1..Len(s)}

ChunkSizes == 1..MaxChunk

\* ------------------------------------------------------------- the store
LIST_INSTITUTIONS == "institutions"
LIST_COMPANIES == "companies"
SET_COMPANIES == "companies:set"

\* a key that does not exist reads as the empty list / the empty set
Absent(key) == IF key = SET_COMPANIES THEN {} ELSE <<>>

MkStore(insts, comps, cset) ==
    (LIST_INSTITUTIONS :> insts) @@ (LIST_COMPANIES :> comps) @@ (SET_COMPANIES :> cset)

EmptyStore == MkStore(<<>>, <<>>, {})

\* what an earlier run, or anybody else, may have left under the three keys
PriorStores ==
    { EmptyStore,
      MkStore(<<"B">>, <<"C", "C", "A">>, {"B"}),
      MkStore(<<"A", "A">>, <<>>, {"A", "B", "C"}) }

Rpush(key, v) == [op |-> "RPUSH", key |-> key, arg |-> v]
Sadd(key, v) == [op |-> "SADD", key |-> key, arg |-> v]

\* r.delete(key): the key is gone
r_delete(s, key) == [s EXCEPT ![key] = Absent(key)]

\* RPUSH key v: v is appended at the tail
r_rpush(s, key, v) == [s EXCEPT ![key] = Append(@, v)]

\* SADD key v: v becomes a member
r_sadd(s, key, v) == [s EXCEPT ![key] = @ \cup {v}]

\* SADD's reply: 1 when v was not a member yet, else 0
sadd_reply(s, key, v) == IF v \in s[key] THEN 0 ELSE 1

\* one pipelined command against the store: the new store and the reply
Apply(s, c) ==
    CASE c.op = "RPUSH" -> [store |-> r_rpush(s, c.key, c.arg),
                            reply |-> Len(s[c.key]) + 1]
      [] c.op = "SADD"  -> [store |-> r_sadd(s, c.key, c.arg),
                            reply |-> sadd_reply(s, c.key, c.arg)]

\* pipe.execute(): the queued commands run in submission order, the replies
\* come back in the same order
RECURSIVE Execute(_, _)
Execute(s, cmds) ==
    IF cmds = <<>> THEN [store |-> s, replies |-> <<>>]
    ELSE LET first == Apply(s, Head(cmds))
             rest  == Execute(first.store, Tail(cmds))
         IN [store |-> rest.store, replies |-> <<first.reply>> \o rest.replies]

\* (variant: the stack is not reset)
PipeAfterExecuteKept(cmds) == cmds

\* the pipeline's command stack once execute() has returned: reset
PipeAfterExecute(cmds) == <<>>

\* ------------------------------------------------------------ the batcher
\* chunked(): one turn of 'for item in iterable'
chunked_step(st, item, size) ==
    LET b == Append(st.batch, item)
    IN IF Len(b) >= size
       THEN [batch |-> <<>>, out |-> Append(st.out, b)]
       ELSE [batch |-> b, out |-> st.out]

\* (variant: the partial last batch is not yielded)
chunked_end_drop(st) == st.out

\* chunked(): after the loop, 'if batch: yield batch'
chunked_end(st) == IF st.batch # <<>> THEN Append(st.out, st.batch) ELSE st.out

RECURSIVE chunked_loop(_, _, _)
chunked_loop(st, iterable, size) ==
    IF iterable = <<>> THEN st
    ELSE chunked_loop(chunked_step(st, Head(iterable), size), Tail(iterable), size)

\* the groups chunked(iterable, size) yields, in yield order
chunked(iterable, size) ==
    chunked_end(chunked_loop([batch |-> <<>>, out |-> <<>>], iterable, size))

\* ------------------------------------------------------- loader helpers
\* [pipe.rpush(key, x) for x in batch] / [pipe.sadd(key, x) for x in batch]
RpushAll(key, batch) == [i \in 1..Len(batch) |-> Rpush(key, batch[i])]
SaddAll(key, batch) == [i \in 1..Len(batch) |-> Sadd(key, batch[i])]

RECURSIVE SelectIdx(_, _, _)
SelectIdx(batch, res, i) ==
    IF i > Len(batch) THEN <<>>
    ELSE (IF res[i] # 0 THEN <<batch[i]>> ELSE <<>>) \o SelectIdx(batch, res, i + 1)

\* (variant: the replies are not looked at)
to_push_all(batch, res) == batch

\* to_push = [c for c, res in zip(batch, sadd_results) if res]
to_push(batch, res) == SelectIdx(batch, res, 1)

\* ---------------------------------------------------------------- state
VARIABLES
    \* pop.py
    store,              \* the Redis server's three keys
    file_institution,   \* the input file's 'institution' array
    file_companies,     \* the input file's 'companies' array
    chunk,              \* args.chunk
    pc,                 \* main's position
    failed,             \* a store error has aborted the run
    call,               \* which push_companies_deduped call runs (1 or 2)
    companies_iter,     \* the argument of the running push_companies_deduped
    batches,            \* what the chunked generator has still to yield
    batch,              \* the current batch
    pipe,               \* push_institutions' pipeline command stack
    sadd_results,       \* the replies of the batch's SADDs
    total,              \* push_institutions' total
    total_added,        \* push_companies_deduped's total_added
    inst_count,
    companies_added,
    companies_added_from_insts,
    total_companies,
    runs,               \* how many times the script has been started
    \* chunked() run alone
    c_iterable,         \* the sequence handed to chunked
    c_size,             \* the size handed to chunked
    c_rest,             \* what the for loop has not consumed yet
    c_st,               \* the generator's batch and what it has yielded
    c_pc,
    \* iterate_companies_and_institutions
    doc,                \* the JSON document the input file holds
    use_ijson,          \* the use_ijson argument
    ijson_importable,   \* whether 'import ijson' succeeds
    r_pc,
    institutions_out,   \* what the returned institutions iterator yields
    companies_out,      \* what the returned companies iterator yields
    used_ijson,         \* the returned flag
    \* count.py
    entry,              \* what the file system holds at the given path
    n_pc,
    n_count,            \* count_objects_in_file's return value
    stdout,             \* the lines printed
    exit_status

popVars == <<store, file_institution, file_companies, chunk, pc, failed, call,
             companies_iter, batches, batch, pipe, sadd_results, total,
             total_added, inst_count, companies_added,
             companies_added_from_insts, total_companies, runs>>
chunkVars == <<c_iterable, c_size, c_rest, c_st, c_pc>>
readerVars == <<doc, use_ijson, ijson_importable, r_pc, institutions_out,
                companies_out, used_ijson>>
countVars == <<entry, n_pc, n_count, stdout, exit_status>>

vars == <<popVars, chunkVars, readerVars, countVars>>

\* a script that is not the one running: its variables stay as they are
IdleChunk ==
    /\ c_iterable = <<>> /\ c_size = 1 /\ c_rest = <<>>
    /\ c_st = [batch |-> <<>>, out |-> <<>>] /\ c_pc = "idle"
IdleReader ==
    /\ doc = [t |-> "null", v |-> <<>>, keys |-> <<>>, vals |-> <<>>]
    /\ use_ijson = FALSE /\ ijson_importable = FALSE
    /\ r_pc = "idle" /\ institutions_out = <<>> /\ companies_out = <<>>
    /\ used_ijson = FALSE
IdleCount ==
    /\ entry = [kind |-> "missing", readable |-> FALSE, wellformed |-> FALSE,
                data |-> [t |-> "null", v |-> <<>>, keys |-> <<>>, vals |-> <<>>]]
    /\ n_pc = "idle" /\ n_count = 0
    /\ stdout = <<>> /\ exit_status = 0
IdlePop ==
    /\ store = EmptyStore /\ file_institution = <<>> /\ file_companies = <<>>
    /\ chunk = 1 /\ pc = "idle" /\ failed = FALSE /\ call = 0
    /\ companies_iter = <<>> /\ batches = <<>> /\ batch = <<>> /\ pipe = <<>>
    /\ sadd_results = <<>> /\ total = 0 /\ total_added = 0 /\ inst_count = 0
    /\ companies_added = 0 /\ companies_added_from_insts = 0
    /\ total_companies = 0 /\ runs = 0
nonPop == <<chunkVars, readerVars, countVars>>
nonChunk == <<popVars, readerVars, countVars>>
nonReader == <<popVars, chunkVars, countVars>>
nonCount == <<popVars, chunkVars, readerVars>>

fileVars == <<file_institution, file_companies, chunk>>
resultVars == <<inst_count, companies_added, companies_added_from_insts,
                total_companies>>

\* ------------------------------------------------------------ pop.py main
InitPop ==
    /\ store \in PriorStores
    /\ file_institution \in SeqsUpTo(Items, MaxLen)
    /\ file_companies \in SeqsUpTo(Items, MaxLen)
    /\ chunk \in ChunkSizes
    /\ pc = "push_institutions"
    /\ failed = FALSE
    /\ call = 0
    /\ companies_iter = <<>>
    /\ batches = <<>>
    /\ batch = <<>>
    /\ pipe = <<>>
    /\ sadd_results = <<>>
    /\ total = 0
    /\ total_added = 0
    /\ inst_count = 0
    /\ companies_added = 0
    /\ companies_added_from_insts = 0
    /\ total_companies = 0
    /\ runs = 1
    /\ IdleChunk /\ IdleReader /\ IdleCount

\* push_institutions: total = 0; r.delete('institutions'); pipe = r.pipeline()
push_institutions_delete ==
    /\ pc = "push_institutions" /\ ~failed /\ UNCHANGED <<nonPop, runs>>
    /\ total' = 0
    /\ store' = r_delete(store, LIST_INSTITUTIONS)
    /\ pipe' = <<>>
    /\ batches' = chunked(file_institution, chunk)
    /\ pc' = "pi_loop"
    /\ UNCHANGED <<fileVars, failed, call, companies_iter, batch, sadd_results,
                   total_added, resultVars>>

\* push_institutions: one turn of the loop, one round trip
push_institutions_batch ==
    /\ pc = "pi_loop" /\ ~failed /\ UNCHANGED <<nonPop, runs>>
    /\ batches # <<>>
    /\ LET b == Head(batches)
           queued == pipe \o RpushAll(LIST_INSTITUTIONS, b)
       IN /\ batch' = b
          /\ store' = Execute(store, queued).store
          /\ pipe' = PipeAfterExecute(queued)
          /\ total' = total + Len(b)
    /\ batches' = Tail(batches)
    /\ UNCHANGED <<fileVars, pc, failed, call, companies_iter, sadd_results,
                   total_added, resultVars>>

\* push_institutions: return total; main goes on to the first deduplicating call
push_institutions_return ==
    /\ pc = "pi_loop" /\ ~failed /\ UNCHANGED <<nonPop, runs>>
    /\ batches = <<>>
    /\ inst_count' = total
    /\ call' = 1
    /\ companies_iter' = file_companies
    /\ pc' = "pcd_delete_list"
    /\ UNCHANGED <<store, fileVars, failed, batches, batch, pipe, sadd_results, total,
                   total_added, companies_added, companies_added_from_insts,
                   total_companies>>

\* (variant: the list is left as it was)
push_companies_deduped_delete_list_skip ==
    /\ pc = "pcd_delete_list" /\ ~failed /\ UNCHANGED <<nonPop, runs>>
    /\ pc' = "pcd_delete_set"
    /\ UNCHANGED <<store, fileVars, failed, call, companies_iter, batches, batch, pipe,
                   sadd_results, total, total_added, resultVars>>

\* push_companies_deduped: r.delete('companies')
push_companies_deduped_delete_list ==
    /\ pc = "pcd_delete_list" /\ ~failed /\ UNCHANGED <<nonPop, runs>>
    /\ store' = r_delete(store, LIST_COMPANIES)
    /\ pc' = "pcd_delete_set"
    /\ UNCHANGED <<fileVars, failed, call, companies_iter, batches, batch, pipe,
                   sadd_results, total, total_added, resultVars>>

\* (variant: the set is left as it was)
push_companies_deduped_delete_set_skip ==
    /\ pc = "pcd_delete_set" /\ ~failed /\ UNCHANGED <<nonPop, runs>>
    /\ total_added' = 0
    /\ batches' = chunked(companies_iter, chunk)
    /\ pc' = "pcd_loop"
    /\ UNCHANGED <<store, fileVars, failed, call, companies_iter, batch, pipe,
                   sadd_results, total, resultVars>>

\* push_companies_deduped: r.delete('companies:set'); total_added = 0; the
\* chunked generator is made
push_companies_deduped_delete_set ==
    /\ pc = "pcd_delete_set" /\ ~failed /\ UNCHANGED <<nonPop, runs>>
    /\ store' = r_delete(store, SET_COMPANIES)
    /\ total_added' = 0
    /\ batches' = chunked(companies_iter, chunk)
    /\ pc' = "pcd_loop"
    /\ UNCHANGED <<fileVars, failed, call, companies_iter, batch, pipe,
                   sadd_results, total, resultVars>>

\* push_companies_deduped: the batch's SADDs, one round trip
push_companies_deduped_sadd ==
    /\ pc = "pcd_loop" /\ ~failed /\ UNCHANGED <<nonPop, runs>>
    /\ batches # <<>>
    /\ LET b == Head(batches)
           done == Execute(store, SaddAll(SET_COMPANIES, b))
       IN /\ batch' = b
          /\ store' = done.store
          /\ sadd_results' = done.replies
    /\ batches' = Tail(batches)
    /\ pc' = "pcd_push"
    /\ UNCHANGED <<fileVars, failed, call, companies_iter, pipe, total, total_added,
                   resultVars>>

\* (variant: the whole batch is counted)
added_len_batch(b, pushed) == Len(b)

\* total_added += len(to_push)
added_len(b, pushed) == Len(pushed)

\* push_companies_deduped: the newly added items go to the list, one round trip
push_companies_deduped_rpush ==
    /\ pc = "pcd_push" /\ ~failed /\ UNCHANGED <<nonPop, runs>>
    /\ LET pushed == to_push(batch, sadd_results)
       IN IF pushed # <<>>
          THEN /\ store' = Execute(store, RpushAll(LIST_COMPANIES, pushed)).store
               /\ total_added' = total_added + added_len(batch, pushed)
          ELSE UNCHANGED <<store, total_added>>
    /\ pc' = "pcd_loop"
    /\ UNCHANGED <<fileVars, failed, call, companies_iter, batches, batch, pipe,
                   sadd_results, total, resultVars>>

\* push_companies_deduped: return total_added
push_companies_deduped_return ==
    /\ pc = "pcd_loop" /\ ~failed /\ UNCHANGED <<nonPop, runs>>
    /\ batches = <<>>
    /\ IF call = 1
       THEN /\ companies_added' = total_added
            /\ pc' = "reopen"
            /\ UNCHANGED companies_added_from_insts
       ELSE /\ companies_added_from_insts' = total_added
            /\ pc' = "report"
            /\ UNCHANGED companies_added
    /\ UNCHANGED <<store, fileVars, failed, call, companies_iter, batches, batch, pipe,
                   sadd_results, total, total_added, inst_count, total_companies>>

\* main: the institutions are read again and handed to the second call
reopen_institutions ==
    /\ pc = "reopen" /\ ~failed /\ UNCHANGED <<nonPop, runs>>
    /\ call' = 2
    /\ companies_iter' = file_institution
    /\ pc' = "pcd_delete_list"
    /\ UNCHANGED <<store, fileVars, failed, batches, batch, pipe, sadd_results, total,
                   total_added, resultVars>>

\* main: total_companies = r.llen('companies'); the summary is printed
report ==
    /\ pc = "report" /\ ~failed /\ UNCHANGED <<nonPop, runs>>
    /\ total_companies' = Len(store[LIST_COMPANIES])
    /\ pc' = "done"
    /\ UNCHANGED <<store, fileVars, failed, call, companies_iter, batches, batch, pipe,
                   sadd_results, total, total_added, inst_count, companies_added,
                   companies_added_from_insts>>

\* the script is run again on the same file, against what the last run left
rerun ==
    /\ pc = "done" /\ ~failed /\ UNCHANGED nonPop
    /\ runs < MaxRuns
    /\ runs' = runs + 1
    /\ pc' = "push_institutions"
    /\ call' = 0
    /\ companies_iter' = <<>>
    /\ batches' = <<>>
    /\ batch' = <<>>
    /\ pipe' = <<>>
    /\ sadd_results' = <<>>
    /\ total' = 0
    /\ total_added' = 0
    /\ inst_count' = 0
    /\ companies_added' = 0
    /\ companies_added_from_insts' = 0
    /\ total_companies' = 0
    /\ UNCHANGED <<store, fileVars, failed>>

\* the positions whose next step is a round trip to the store
AtRoundTrip ==
    \/ pc \in {"push_institutions", "pcd_delete_list", "pcd_delete_set", "report"}
    \/ pc \in {"pi_loop", "pcd_loop"} /\ batches # <<>>
    \/ pc = "pcd_push" /\ to_push(batch, sadd_results) # <<>>

\* a store command fails (connection error): nothing catches it, the run ends
store_error ==
    /\ ~failed /\ UNCHANGED <<nonPop, runs>>
    /\ AtRoundTrip
    /\ failed' = TRUE
    /\ UNCHANGED <<store, fileVars, pc, call, companies_iter, batches, batch, pipe,
                   sadd_results, total, total_added, resultVars>>

NextPop ==
    \/ push_institutions_delete
    \/ push_institutions_batch
    \/ push_institutions_return
    \/ push_companies_deduped_delete_list
    \/ push_companies_deduped_delete_set
    \/ push_companies_deduped_sadd
    \/ push_companies_deduped_rpush
    \/ push_companies_deduped_return
    \/ reopen_institutions
    \/ report
    \/ rerun
    \/ store_error

SpecPop == InitPop /\ [][NextPop]_vars

\* ------------------------------------------------------ chunked() alone
InitChunk ==
    /\ c_iterable \in SeqsUpTo(Items, MaxSeqLen)
    /\ c_size \in ChunkSizes
    /\ c_rest = c_iterable
    /\ c_st = [batch |-> <<>>, out |-> <<>>]
    /\ c_pc = "loop"
    /\ IdlePop /\ IdleReader /\ IdleCount

\* for item in iterable: batch.append(item); a full batch is yielded
chunked_take ==
    /\ c_pc = "loop"
    /\ c_rest # <<>>
    /\ c_st' = chunked_step(c_st, Head(c_rest), c_size)
    /\ c_rest' = Tail(c_rest)
    /\ UNCHANGED <<c_iterable, c_size, c_pc, nonChunk>>

\* the iterable is exhausted: a non-empty batch is yielded, the generator ends
chunked_finish ==
    /\ c_pc = "loop"
    /\ c_rest = <<>>
    /\ c_st' = [c_st EXCEPT !.out = chunked_end(c_st)]
    /\ c_pc' = "done"
    /\ UNCHANGED <<c_iterable, c_size, c_rest, nonChunk>>

NextChunk == chunked_take \/ chunked_finish

SpecChunk == InitChunk /\ [][NextChunk]_vars

\* ----------------------------------------------------- the JSON documents
\* a JSON value: its type t; v, an array's elements (strings) or a string's
\* characters; keys and vals, an object's members in file order
JValue(t, v, keys, vals) == [t |-> t, v |-> v, keys |-> keys, vals |-> vals]
JArray(items) == JValue("array", items, <<>>, <<>>)
JString(chars) == JValue("string", chars, <<>>, <<>>)
JObject(keys, vals) == JValue("object", <<>>, keys, vals)
JNumber == JValue("number", <<>>, <<>>, <<>>)
JBool == JValue("boolean", <<>>, <<>>, <<>>)
JNull == JValue("null", <<>>, <<>>, <<>>)

FieldNames == {"institution", "companies"}

\* key in data / data[key] of a dict
HasKey(obj, key) == \E i \in 1..Len(obj.keys) : obj.keys[i] = key
Member(obj, key) == obj.vals[CHOOSE i \in 1..Len(obj.keys) : obj.keys[i] = key]

\* what a field of the top-level object may hold
FieldValues ==
    {JArray(s) : s \in SeqsUpTo(Items, MaxLen)}
        \cup {JString(<<"A", "B">>), JNumber, JNull,
              JObject(<<"name">>, <<JString(<<"A">>)>>)}

\* the top-level objects: each of the two fields present or not
TopObjects ==
    {JObject(<<>>, <<>>)}
        \cup {JObject(<<"institution">>, <<i>>) : i \in FieldValues}
        \cup {JObject(<<"companies">>, <<c>>) : c \in FieldValues}
        \cup {JObject(<<"institution", "companies">>, <<i, c>>) :
                  i \in FieldValues, c \in FieldValues}

\* the well-formed input files
Docs ==
    TopObjects
        \cup {JArray(s) : s \in SeqsUpTo(Items, MaxLen)}
        \cup {JString(<<"A", "B">>), JNumber}

\* ------------------------------------------------------------ the reader
Ev(prefix, event, value) == [prefix |-> prefix, event |-> event, value |-> value]

\* the (prefix, event, value) stream ijson parses a document into; an array's
\* elements are strings here
RECURSIVE Events(_, _), MemberEvents(_, _, _)
Events(prefix, val) ==
    CASE val.t = "array" ->
             <<Ev(prefix, "start_array", "")>>
                 \o [i \in 1..Len(val.v) |->
                        Ev(prefix \o <<"item">>, "string", val.v[i])]
                 \o <<Ev(prefix, "end_array", "")>>
      [] val.t = "object" ->
             <<Ev(prefix, "start_map", "")>>
                 \o MemberEvents(prefix, val.keys, val.vals)
                 \o <<Ev(prefix, "end_map", "")>>
      [] OTHER -> <<Ev(prefix, val.t, "")>>
MemberEvents(prefix, keys, vals) ==
    IF keys = <<>> THEN <<>>
    ELSE <<Ev(prefix, "map_key", Head(keys))>>
             \o Events(prefix \o <<Head(keys)>>, Head(vals))
             \o MemberEvents(prefix, Tail(keys), Tail(vals))

\* ijson.items(f, prefix): the values standing at the prefix
ijson_items(events, prefix) ==
    LET At(e) == e.prefix = prefix /\ e.event = "string"
        hits == SelectSeq(events, At)
    IN [i \in 1..Len(hits) |-> hits[i].value]

\* stream_array_with_ijson(path, key): what the generator yields
stream_array_with_ijson(d, key) == ijson_items(Events(<<>>, d), <<key, "item">>)

\* data.get(key, []) if isinstance(data, dict) else []
get_or_empty(data, key) ==
    IF data.t = "object" /\ HasKey(data, key) THEN Member(data, key) ELSE JArray(<<>>)

\* iter(x): a list gives its elements, a str its characters, a dict its keys;
\* anything else raises TypeError
py_iter(x) ==
    CASE x.t = "array"  -> [raised |-> FALSE, items |-> x.v]
      [] x.t = "string" -> [raised |-> FALSE, items |-> x.v]
      [] x.t = "object" -> [raised |-> FALSE, items |-> x.keys]
      [] OTHER          -> [raised |-> TRUE, items |-> <<>>]

\* load_list_from_json(path, key): the list at key, else []
load_list_from_json(d, key) ==
    IF d.t = "object" /\ HasKey(d, key) /\ Member(d, key).t = "array"
    THEN Member(d, key).v
    ELSE <<>>

InitReader ==
    /\ doc \in Docs
    /\ use_ijson \in BOOLEAN
    /\ ijson_importable \in BOOLEAN
    /\ r_pc = "call"
    /\ institutions_out = <<>>
    /\ companies_out = <<>>
    /\ used_ijson = FALSE
    /\ IdlePop /\ IdleChunk /\ IdleCount

\* use_ijson and ijson imports: the two streaming generators are returned
iterate_streaming ==
    /\ r_pc = "call"
    /\ use_ijson /\ ijson_importable
    /\ institutions_out' = stream_array_with_ijson(doc, "institution")
    /\ companies_out' = stream_array_with_ijson(doc, "companies")
    /\ used_ijson' = TRUE
    /\ r_pc' = "returned"
    /\ UNCHANGED <<doc, use_ijson, ijson_importable, nonReader>>

\* use_ijson but the import fails: use_ijson = False, fall through
iterate_import_failed ==
    /\ r_pc = "call"
    /\ use_ijson /\ ~ijson_importable
    /\ use_ijson' = FALSE
    /\ r_pc' = "fallback"
    /\ UNCHANGED <<doc, ijson_importable, institutions_out, companies_out,
                   used_ijson, nonReader>>

\* the whole file is parsed; iter() of the two fields is returned, and a
\* TypeError of iter() reaches main, which exits with status 3
iterate_fallback ==
    /\ r_pc \in {"call", "fallback"}
    /\ ~use_ijson
    /\ LET institutions == py_iter(get_or_empty(doc, "institution"))
           companies == py_iter(get_or_empty(doc, "companies"))
       IN IF institutions.raised \/ companies.raised
          THEN /\ r_pc' = "exit3"
               /\ UNCHANGED <<institutions_out, companies_out>>
          ELSE /\ r_pc' = "returned"
               /\ institutions_out' = institutions.items
               /\ companies_out' = companies.items
    /\ used_ijson' = FALSE
    /\ UNCHANGED <<doc, use_ijson, ijson_importable, nonReader>>

NextReader == iterate_streaming \/ iterate_import_failed \/ iterate_fallback

SpecReader == InitReader /\ [][NextReader]_vars

\* ---------------------------------------------------------------- count.py
\* the documents the counter is given
CountDocs ==
    {JArray(s) : s \in SeqsUpTo(Items, MaxArr)}
        \cup {JObject(<<>>, <<>>), JObject(<<"name">>, <<JNumber>>),
              JObject(<<"name", "institution">>, <<JNumber, JArray(<<"A">>)>>)}
        \cup {JString(<<"A", "B">>), JNumber, JBool, JNull}

Entry(kind, readable, wellformed, data) ==
    [kind |-> kind, readable |-> readable, wellformed |-> wellformed, data |-> data]

\* what may stand at the path: nothing, a directory, a file that cannot be
\* opened, a file that is not JSON, a file holding a JSON document
Entries ==
    {Entry("missing", FALSE, FALSE, JNull), Entry("dir", FALSE, FALSE, JNull),
     Entry("file", FALSE, TRUE, JArray(<<"A">>)), Entry("file", TRUE, FALSE, JNull)}
        \cup {Entry("file", TRUE, TRUE, d) : d \in CountDocs}

Line(text, value) == [text |-> text, value |-> value]

\* (variant: an object counts its members)
count_of_len(data) ==
    IF data.t = "array" THEN Len(data.v)
    ELSE IF data.t = "object" THEN Len(data.keys)
    ELSE 0

\* the isinstance chain of count_objects_in_file
count_of(data) ==
    IF data.t = "array" THEN Len(data.v)
    ELSE IF data.t = "object" THEN 1
    ELSE 0

InitCount ==
    /\ entry \in Entries
    /\ n_pc = "main"
    /\ n_count = 0
    /\ stdout = <<>>
    /\ exit_status = 0
    /\ IdlePop /\ IdleChunk /\ IdleReader

\* main: not path.is_file(): the message is printed and main returns
count_main_not_file ==
    /\ n_pc = "main"
    /\ entry.kind # "file"
    /\ stdout' = Append(stdout, Line("File not found", 0))
    /\ exit_status' = 0
    /\ n_pc' = "exited"
    /\ UNCHANGED <<entry, n_count, nonCount>>

\* main: the path is a file, count_objects_in_file is called
count_main_is_file ==
    /\ n_pc = "main"
    /\ entry.kind = "file"
    /\ n_pc' = "count_objects_in_file"
    /\ UNCHANGED <<entry, n_count, stdout, exit_status, nonCount>>

\* count_objects_in_file: open() or json.load() raises: reported, 0 returned
count_objects_error ==
    /\ n_pc = "count_objects_in_file"
    /\ ~entry.readable \/ ~entry.wellformed
    /\ stdout' = Append(stdout, Line("Error reading", 0))
    /\ n_count' = 0
    /\ n_pc' = "print"
    /\ UNCHANGED <<entry, exit_status, nonCount>>

\* count_objects_in_file: the document is parsed and counted
count_objects_value ==
    /\ n_pc = "count_objects_in_file"
    /\ entry.readable /\ entry.wellformed
    /\ n_count' = count_of(entry.data)
    /\ n_pc' = "print"
    /\ UNCHANGED <<entry, stdout, exit_status, nonCount>>

\* main: print(count), and main returns
count_main_print ==
    /\ n_pc = "print"
    /\ stdout' = Append(stdout, Line("count", n_count))
    /\ exit_status' = 0
    /\ n_pc' = "exited"
    /\ UNCHANGED <<entry, n_count, nonCount>>

NextCount ==
    \/ count_main_not_file
    \/ count_main_is_file
    \/ count_objects_error
    \/ count_objects_value
    \/ count_main_print

SpecCount == InitCount /\ [][NextCount]_vars

\* ------------------------------------------------- properties of pop.py
\* s with every occurrence of an item after its first removed
RECURSIVE Dedup(_)
Dedup(s) ==
    IF s = <<>> THEN <<>>
    ELSE LET d == Dedup(SubSeq(s, 1, Len(s) - 1))
             x == s[Len(s)]
         IN IF x \in Range(d) THEN d ELSE Append(d, x)

NoRepeat(s) == \A i, j \in 1..Len(s) : s[i] = s[j] => i = j

IsPrefix(p, s) == Len(p) <= Len(s) /\ SubSeq(s, 1, Len(p)) = p

\* a push_companies_deduped call has just returned
CallDone == pc \in {"reopen", "report"}

\* push_institutions has returned
InstitutionsPushed == pc \notin {"idle", "push_institutions", "pi_loop"}

\* C1: after the two successive calls of main (companies, then institutions)
\* the list 'companies' is the first-occurrence deduplication of companies
\* followed by institutions, and the second call returns the number of
\* distinct institutions that are not companies.
C1_MergedAcrossCalls ==
    pc = "report" =>
        /\ store[LIST_COMPANIES] = Dedup(file_companies \o file_institution)
        /\ companies_added_from_insts =
               Cardinality(Range(file_institution) \ Range(file_companies))

\* C2: when a push_companies_deduped call completes, whatever the keys held
\* before, the list 'companies' has no repeated element and equals the call's
\* input with every occurrence after the first removed.
C2_DedupedFirstOccurrence ==
    CallDone =>
        /\ NoRepeat(store[LIST_COMPANIES])
        /\ store[LIST_COMPANIES] = Dedup(companies_iter)

C2_Witness ==
    /\ pc = "reopen" /\ chunk = 1
    /\ companies_iter = <<"A", "A">>
    /\ store[LIST_COMPANIES] = <<"A">>

\* C3: when a push_companies_deduped call has completed (the first and the
\* second of main), the members of 'companies:set' are exactly the elements of
\* the list 'companies'.
C3_SetMatchesList ==
    CallDone => store[SET_COMPANIES] = Range(store[LIST_COMPANIES])

C3_Witness ==
    /\ pc = "report"
    /\ store[SET_COMPANIES] = {"A", "B"}
    /\ store[LIST_COMPANIES] = <<"B", "A">>

\* C4: once push_institutions has returned, whatever 'institutions' held
\* before (the outcome of an earlier run included), the list equals the input
\* exactly, duplicates kept, and the returned total is the input's length.
C4_PlainLoadExact ==
    InstitutionsPushed =>
        /\ store[LIST_INSTITUTIONS] = file_institution
        /\ inst_count = Len(file_institution)

C4_Witness ==
    /\ pc = "pcd_delete_list" /\ call = 1 /\ runs = 2 /\ chunk = 1
    /\ file_institution = <<"A", "A">>
    /\ store[LIST_INSTITUTIONS] = <<"A", "A">>
    /\ inst_count = 2

\* C9: the value a push_companies_deduped call returns is the number of items
\* it added: the number of distinct items of its input, which is the length of
\* the list 'companies' when it completes.
C9_ReturnsNewlyAdded ==
    CallDone =>
        /\ total_added = Cardinality(Range(companies_iter))
        /\ total_added = Len(store[LIST_COMPANIES])
        /\ pc = "reopen" => companies_added = total_added
        /\ pc = "report" => companies_added_from_insts = total_added

C9_Witness ==
    /\ pc = "reopen"
    /\ companies_iter = <<"B", "B">>
    /\ companies_added = 1

\* the call has deleted the list and is at, or past, the delete of the set (it
\* may have been aborted there)
FromDeletes == pc \in {"pcd_delete_set", "pcd_loop", "pcd_push", "reopen", "report"}

\* C10: from the two deletes of a push_companies_deduped call onward, between
\* any two round trips and also when a store error has aborted the run, every
\* element of the list 'companies' is a member of 'companies:set' and the list
\* is a prefix of the first-occurrence deduplication of the call's input.
C10_PartialListSound ==
    FromDeletes =>
        /\ Range(store[LIST_COMPANIES]) \subseteq store[SET_COMPANIES]
        /\ IsPrefix(store[LIST_COMPANIES], Dedup(companies_iter))
        /\ NoRepeat(store[LIST_COMPANIES])

C10_Witness ==
    /\ pc = "pcd_push" /\ failed
    /\ store[LIST_COMPANIES] = <<"A">>
    /\ store[SET_COMPANIES] = {"A", "B"}

\* ---------------------------------------------- properties of chunked()
RECURSIVE Flatten(_)
Flatten(groups) ==
    IF groups = <<>> THEN <<>> ELSE Head(groups) \o Flatten(Tail(groups))

\* C5: for every sequence and every size n >= 1 the groups chunked yields,
\* concatenated in yield order, are the sequence; every group is non-empty,
\* every group but the last has exactly n items, the last at most n, and an
\* empty sequence yields no group.
C5_ChunksPartitionInput ==
    c_pc = "done" =>
        LET out == c_st.out
        IN /\ Flatten(out) = c_iterable
           /\ \A i \in 1..Len(out) : Len(out[i]) >= 1 /\ Len(out[i]) <= c_size
           /\ \A i \in 1..(Len(out) - 1) : Len(out[i]) = c_size
           /\ c_iterable = <<>> => out = <<>>
           /\ out = chunked(c_iterable, c_size)

C5_Witness ==
    /\ c_pc = "done" /\ c_size = 2
    /\ c_iterable = <<"A", "B", "C">>
    /\ c_st.out = << <<"A", "B">>, <<"C">> >>

\* ---------------------------------------------- properties of the reader
\* C6: on the same well-formed file and field the streaming reader and the
\* fallback reader yield the same items: what a run returned is what the
\* other mode yields, and both yield nothing when the field is absent, is
\* not an array, or the top level is not an object.
C6_ModesAgree ==
    r_pc \in {"returned", "exit3"} =>
        /\ r_pc = "returned"
        /\ institutions_out = stream_array_with_ijson(doc, "institution")
        /\ companies_out = stream_array_with_ijson(doc, "companies")
        /\ ~py_iter(get_or_empty(doc, "institution")).raised
        /\ institutions_out = py_iter(get_or_empty(doc, "institution")).items
        /\ ~py_iter(get_or_empty(doc, "companies")).raised
        /\ companies_out = py_iter(get_or_empty(doc, "companies")).items
        /\ \A f \in FieldNames :
               (doc.t # "object" \/ ~HasKey(doc, f) \/ Member(doc, f).t # "array")
                   => (f = "institution" => institutions_out = <<>>)
                      /\ (f = "companies" => companies_out = <<>>)

\* --------------------------------------------- properties of the counter
\* C7: given a path that is not an existing file, the counter prints a
\* message, prints no count, and the process exits with a non-zero status.
C7_MissingFileExitsNonZero ==
    (n_pc = "exited" /\ entry.kind # "file") =>
        /\ stdout = <<Line("File not found", 0)>>
        /\ exit_status # 0

\* C8: count_objects_in_file returns the number of elements of a top-level
\* array, 1 for a top-level object, 0 for any other top-level value, and 0
\* with the error reported when the file cannot be read or is not JSON.
C8_CountByTopLevel ==
    n_pc \in {"print", "exited"} /\ entry.kind = "file" =>
        IF entry.readable /\ entry.wellformed
        THEN /\ entry.data.t = "array" => n_count = Len(entry.data.v)
             /\ entry.data.t = "object" => n_count = 1
             /\ entry.data.t \notin {"array", "object"} => n_count = 0
             /\ \A i \in 1..Len(stdout) : stdout[i].text # "Error reading"
        ELSE /\ n_count = 0
             /\ stdout # <<>> /\ stdout[1].text = "Error reading"

C8_Witness ==
    /\ n_pc = "print"
    /\ entry.data = JArray(<<"A", "B", "C">>)
    /\ entry.readable /\ entry.wellformed
    /\ n_count = 3

====
